---- MODULE Spec2Model ----
(***************************************************************************)
(* Breakout / retest detection engine of pkg/analysis/breakout.go.         *)
(*                                                                         *)
(* Prices are integers.  The regression channel of integer closes lives in *)
(* the field Q(s) with s = sqrt(sse/n): every float64 the engine compares  *)
(* is a number (a + b*s)/d, kept exactly as a record [a, b, d] and compared*)
(* by signed squares, so no comparison of the code is approximated.  Only  *)
(* the quotient distance/deviation of calculateConfidence, irrational in   *)
(* general, is truncated (to 1/RatioScale).  IEEE-754 division by zero is  *)
(* kept: x/0 is +Inf, -Inf or NaN, and every comparison with NaN is false. *)
(* Direct calls of CalculateLinearRegressionChannel are also made on       *)
(* prices whose sums and products round; for them every operation of the   *)
(* fit is rounded as float64 rounds, in floats of FloatBits bits.          *)
(***************************************************************************)
EXTENDS Integers, Sequences, FiniteSets, TLC

----------------------------------------------------------------------------
(* Bounds of the model *)

\* ta.Length, the fitting-window length (100 by default in the source)
Length == 3
\* candles the input may hold before the fitting window
MaxExtra == 2
\* positions of the analysis window whose candle differs from the candle before
MaxChanges == 2
\* significant bits of a float that rounds (53 in a float64)
FloatBits == 6
\* a float that rounds is a multiple of 2^-FracBits
FracBits == 8

(* Program constants *)

DevLength == 2
AnalysisWindow == 10
RSIPeriod == 14
RetestLookback == 5
\* the candles hasSuccessfulRetest asks for
MinCandles == 20
StrengthLookback == 10

\* BreakoutSignal.Confidence is kept in units of 1/ConfScale: every product
\* and sum of the confidence formulas is then an exact integer
ConfScale == 40000
\* distance/deviation is truncated to 1/RatioScale
RatioScale == 100

\* closes of the candles up to the analysis window
FitPrices == {30, 33}

----------------------------------------------------------------------------
(* Integer helpers *)

Abs(x) == IF x < 0 THEN -x ELSE x

Sgn(x) == IF x > 0 THEN 1 ELSE IF x < 0 THEN -1 ELSE 0

Min(x, y) == IF x < y THEN x ELSE y

Max(x, y) == IF x > y THEN x ELSE y

RECURSIVE GCD(_, _)
GCD(x, y) == IF y = 0 THEN Abs(x) ELSE GCD(Abs(y), Abs(x) % Abs(y))

RECURSIVE SumSeq(_)
SumSeq(s) == IF s = <<>> THEN 0 ELSE Head(s) + SumSeq(Tail(s))

----------------------------------------------------------------------------
(* float64 values of one channel: (a + b*s)/d with d > 0, s = sqrt(sse/n) *)

VNorm(a, b, d) ==
    LET g == GCD(GCD(a, b), d)
    IN  IF g = 0 THEN [a |-> a, b |-> b, d |-> d]
        ELSE [a |-> a \div g, b |-> b \div g, d |-> d \div g]

VInt(x) == [a |-> x, b |-> 0, d |-> 1]

\* x + sg*y over the least common denominator
VSum(x, y, sg) ==
    IF x.d = y.d THEN [a |-> x.a + sg * y.a, b |-> x.b + sg * y.b, d |-> x.d]
    ELSE LET g  == GCD(x.d, y.d)
             mx == y.d \div g
             my == x.d \div g
         IN  [a |-> x.a * mx + sg * y.a * my, b |-> x.b * mx + sg * y.b * my, d |-> x.d * mx]

VAdd(x, y) == VSum(x, y, 1)

VSub(x, y) == VSum(x, y, -1)

\* x * (p/q), q > 0
VScale(x, p, q) ==
    IF q = 1 THEN [a |-> x.a * p, b |-> x.b * p, d |-> x.d]
    ELSE LET g == GCD(p, q)
         IN  [a |-> x.a * (p \div g), b |-> x.b * (p \div g), d |-> x.d * (q \div g)]

\* sign of a + b*sqrt(sse/n): u |-> Sgn(u)*u*u is strictly increasing
VSign(x, sse, n) == Sgn(Sgn(x.a) * x.a * x.a * n + Sgn(x.b) * x.b * x.b * sse)

----------------------------------------------------------------------------
(* nil pointers, and the float64 NaN *)

Nil == [nil |-> TRUE]

NaN == [nan |-> TRUE]

----------------------------------------------------------------------------
(* Kline: Open, High, Low, Close, Volume.  Every constructor of the source *)
(* sets IsGreen to close > open and IsRed to close < open.                 *)

Kline(o, h, l, c, v) == [Open |-> o, High |-> h, Low |-> l, Close |-> c, Volume |-> v]

IsGreen(k) == k.Close > k.Open

IsRed(k) == k.Close < k.Open

\* klines[j] of the source, whose slices are 0-based
At(s, j) == s[j + 1]

\* s[:j]
Upto(s, j) == SubSeq(s, 1, j)

Closes(ks) == [j \in 1..Len(ks) |-> ks[j].Close]

----------------------------------------------------------------------------
(* linearRegression: slope = sNum/D, intercept = iNum/(n*D); 0/0 when D = 0 *)

linearRegression(data) ==
    LET n     == Len(data)
        sumX  == SumSeq([j \in 1..n |-> j - 1])
        sumY  == SumSeq(data)
        sumXY == SumSeq([j \in 1..n |-> (j - 1) * data[j]])
        sumXX == SumSeq([j \in 1..n |-> (j - 1) * (j - 1)])
        D     == n * sumXX - sumX * sumX
        sNum  == n * sumXY - sumX * sumY
    IN  IF D = 0 THEN NaN
        ELSE [sNum |-> sNum, D |-> D, iNum |-> sumY * D - sNum * sumX, iDen |-> n * D]

\* variant: the bands of a negative multiplier, the upper line below the
\* lower one (C19 fails with it)
FitChannelCrossed(data) ==
    LET length == Len(data)
        lr     == linearRegression(data)
    IN  IF lr = NaN THEN NaN
        ELSE
          LET g    == GCD(GCD(lr.iNum, lr.sNum * length), lr.iDen)
              den  == lr.iDen \div g
              ic   == lr.iNum \div g
              sl   == (lr.sNum * length) \div g
              res  == [j \in 1..length |-> data[j] * den - (ic + sl * (j - 1))]
              sse  == SumSeq([j \in 1..length |-> res[j] * res[j]])
              dev  == VNorm(0, 1, den)
              currentMiddle == VNorm(ic + sl * (length - 1), 0, den)
          IN  [UpperLine  |-> VSub(currentMiddle, VScale(dev, DevLength, 1)),
               MiddleLine |-> currentMiddle,
               LowerLine  |-> VAdd(currentMiddle, VScale(dev, DevLength, 1)),
               Slope      |-> VNorm(sl, 0, den),
               Deviation  |-> dev,
               TrendUp    |-> sl > 0,
               TrendDown  |-> sl < 0,
               sse        |-> sse,
               n          |-> length]

(* The channel of CalculateLinearRegressionChannel on data, the prices it  *)
(* fits.  With den the common denominator of slope and intercept, sse is   *)
(* the sum of the squared residuals times den*den, so that                 *)
(* Deviation = sqrt(sse/n)/den.                                            *)
FitChannel(data) ==
    LET length == Len(data)
        lr     == linearRegression(data)
    IN  IF lr = NaN THEN NaN
        ELSE
          LET g    == GCD(GCD(lr.iNum, lr.sNum * length), lr.iDen)
              den  == lr.iDen \div g
              ic   == lr.iNum \div g
              sl   == (lr.sNum * length) \div g
              res  == [j \in 1..length |-> data[j] * den - (ic + sl * (j - 1))]
              sse  == SumSeq([j \in 1..length |-> res[j] * res[j]])
              dev  == VNorm(0, 1, den)
              currentMiddle == VNorm(ic + sl * (length - 1), 0, den)
          IN  [UpperLine  |-> VAdd(currentMiddle, VScale(dev, DevLength, 1)),
               MiddleLine |-> currentMiddle,
               LowerLine  |-> VSub(currentMiddle, VScale(dev, DevLength, 1)),
               Slope      |-> VNorm(sl, 0, den),
               Deviation  |-> dev,
               TrendUp    |-> sl > 0,
               TrendDown  |-> sl < 0,
               sse        |-> sse,
               n          |-> length]

\* variant: the length check off by one, fitting what there is (C1 fails with it)
CalculateLinearRegressionChannelShort(prices, length) ==
    IF Len(prices) < length - 1 THEN Nil
    ELSE FitChannel(SubSeq(prices, Max(1, Len(prices) - length + 1), Len(prices)))

\* variant: the first length prices are fitted, not the last (C3 fails with it)
CalculateLinearRegressionChannelHead(prices, length) ==
    IF Len(prices) < length THEN Nil
    ELSE FitChannel(SubSeq(prices, 1, length))

CalculateLinearRegressionChannel(prices, length) ==
    IF Len(prices) < length THEN Nil
    ELSE FitChannel(SubSeq(prices, Len(prices) - length + 1, Len(prices)))

\* comparisons of two float64 values of channel ch
Cmp(x, y, ch) == VSign(VSub(x, y), ch.sse, ch.n)

Gt(x, y, ch) == Cmp(x, y, ch) > 0

Lt(x, y, ch) == Cmp(x, y, ch) < 0

Ge(x, y, ch) == Cmp(x, y, ch) >= 0

Le(x, y, ch) == Cmp(x, y, ch) <= 0

----------------------------------------------------------------------------
(* float64 with its rounding.  The channels above are exact: they are what *)
(* the code computes when no operation rounds.  A float64 keeps 53         *)
(* significant bits, and a sum or product that needs more is rounded to    *)
(* the nearest float64, ties to even.  Here a float keeps FloatBits        *)
(* significant bits, is a multiple of 1/FloatUnit (the smallest exponent), *)
(* and is written as the integer x for the value x/FloatUnit.              *)

RECURSIVE Pow2(_)
Pow2(k) == IF k = 0 THEN 1 ELSE 2 * Pow2(k - 1)

FloatUnit == Pow2(FracBits)

\* num/den to the nearest integer, ties to even; den > 0
RoundEven(num, den) ==
    LET q == num \div den
        r == num % den
    IN  IF 2 * r > den \/ (2 * r = den /\ q % 2 = 1) THEN q + 1 ELSE q

\* the least t >= 0 with |num/den| < 2^(FloatBits + t)
RECURSIVE Exponent(_, _, _)
Exponent(num, den, t) ==
    IF Abs(num) < Pow2(FloatBits + t) * den THEN t ELSE Exponent(num, den, t + 1)

\* num/den rounded to a float; den > 0
Round(num, den) ==
    LET t == Exponent(num, den, 0)
    IN  RoundEven(num, den * Pow2(t)) * Pow2(t)

\* float64(i) of an int
Float(j) == Round(j * FloatUnit, 1)

FAdd(x, y) == Round(x + y, 1)

FSub(x, y) == Round(x - y, 1)

FMul(x, y) == Round(x * y, FloatUnit)

\* x / y, y # 0
FDiv(x, y) == IF y > 0 THEN Round(x * FloatUnit, y) ELSE Round((-x) * FloatUnit, -y)

\* math.Sqrt, correctly rounded: of the two floats around the root, the
\* nearer one
FSqrt(x) ==
    LET S    == x * FloatUnit
        r0   == CHOOSE r \in 0..(x + FloatUnit) : r * r <= S /\ (r + 1) * (r + 1) > S
        g    == Pow2(Exponent(r0, 1, 0))
        lo   == (r0 \div g) * g
        twice == 2 * lo + g
    IN  IF twice * twice < 4 * S THEN lo + g
        ELSE IF twice * twice > 4 * S THEN lo
        ELSE IF (lo \div g) % 2 = 0 THEN lo ELSE lo + g

\* the four sums of linearRegression after the first j prices of data
RECURSIVE Sums(_, _)
Sums(data, j) ==
    IF j = 0 THEN [sumX |-> 0, sumY |-> 0, sumXY |-> 0, sumXX |-> 0]
    ELSE LET s == Sums(data, j - 1)
             x == Float(j - 1)
             y == data[j]
         IN  [sumX  |-> FAdd(s.sumX, x),
              sumY  |-> FAdd(s.sumY, y),
              sumXY |-> FAdd(s.sumXY, FMul(x, y)),
              sumXX |-> FAdd(s.sumXX, FMul(x, x))]

\* linearRegression, every operation rounded.  The denominator of the slope
\* is zero only for fewer than two prices, where the numerator is zero too.
linearRegressionRounded(data) ==
    LET n   == Float(Len(data))
        s   == Sums(data, Len(data))
        num == FSub(FMul(n, s.sumXY), FMul(s.sumX, s.sumY))
        den == FSub(FMul(n, s.sumXX), FMul(s.sumX, s.sumX))
    IN  IF den = 0 THEN NaN
        ELSE LET slope == FDiv(num, den)
             IN  [slope |-> slope, intercept |-> FDiv(FSub(s.sumY, FMul(slope, s.sumX)), n)]

\* dev of CalculateLinearRegressionChannel after the first j prices of data
RECURSIVE SquaredResiduals(_, _, _)
SquaredResiduals(data, lr, j) ==
    IF j = 0 THEN 0
    ELSE LET predicted == FAdd(lr.intercept, FMul(lr.slope, Float(j - 1)))
             residual  == FSub(data[j], predicted)
         IN  FAdd(SquaredResiduals(data, lr, j - 1), FMul(residual, residual))

\* a float as a value of a channel
VFloat(x) == VNorm(x, 0, FloatUnit)

\* The channel of CalculateLinearRegressionChannel on data, every operation
\* rounded.  Its Deviation is a float, so no value has a part in s.
FitChannelRounded(data) ==
    LET length == Len(data)
        lr     == linearRegressionRounded(data)
    IN  IF lr = NaN THEN NaN
        ELSE
          LET dev  == FSqrt(FDiv(SquaredResiduals(data, lr, length), Float(length)))
              currentMiddle == FAdd(lr.intercept, FMul(lr.slope, Float(length - 1)))
              band == FMul(dev, Float(DevLength))
          IN  [UpperLine  |-> VFloat(FAdd(currentMiddle, band)),
               MiddleLine |-> VFloat(currentMiddle),
               LowerLine  |-> VFloat(FSub(currentMiddle, band)),
               Slope      |-> VFloat(lr.slope),
               Deviation  |-> VFloat(dev),
               TrendUp    |-> lr.slope > 0,
               TrendDown  |-> lr.slope < 0,
               sse        |-> 0,
               n          |-> length]

\* CalculateLinearRegressionChannel on floats that round
CalculateLinearRegressionChannelRounded(prices, length) ==
    IF Len(prices) < length THEN Nil
    ELSE FitChannelRounded(SubSeq(prices, Len(prices) - length + 1, Len(prices)))

----------------------------------------------------------------------------
(* CalculateRSI: the value num/den *)

Rat(num, den) == [num |-> num, den |-> den]

\* variant: 100 * rs, without the 1 + rs below it (C16 fails with it)
CalculateRSIRatio(prices, period) ==
    IF Len(prices) < period + 1 THEN Rat(50, 1)
    ELSE IF period = 0 THEN NaN
    ELSE
      LET data   == SubSeq(prices, Len(prices) - period, Len(prices))
          change == [j \in 1..period |-> data[j + 1] - data[j]]
          gains  == SumSeq([j \in 1..period |-> IF change[j] > 0 THEN change[j] ELSE 0])
          losses == SumSeq([j \in 1..period |-> IF change[j] > 0 THEN 0 ELSE -change[j]])
      IN  IF losses = 0 THEN Rat(100, 1)
          ELSE Rat(100 * gains, losses)

\* variant: no test of avgLoss == 0, so that rs is gains/0: +Inf, and an RSI
\* of 100 - 100/Inf = 100, for gains > 0, and 0/0 for none (C17 fails with it)
CalculateRSINoGuard(prices, period) ==
    IF Len(prices) < period + 1 THEN Rat(50, 1)
    ELSE IF period = 0 THEN NaN
    ELSE
      LET data   == SubSeq(prices, Len(prices) - period, Len(prices))
          change == [j \in 1..period |-> data[j + 1] - data[j]]
          gains  == SumSeq([j \in 1..period |-> IF change[j] > 0 THEN change[j] ELSE 0])
          losses == SumSeq([j \in 1..period |-> IF change[j] > 0 THEN 0 ELSE -change[j]])
      IN  IF losses = 0 THEN (IF gains = 0 THEN NaN ELSE Rat(100, 1))
          ELSE Rat(100 * gains, gains + losses)

\* variant: the length check off by one, the RSI taken of the period prices
\* there are (C18 fails with it)
CalculateRSIShort(prices, period) ==
    IF Len(prices) < period THEN Rat(50, 1)
    ELSE IF period = 0 \/ Len(prices) < 2 THEN NaN
    ELSE
      LET data   == SubSeq(prices, Max(1, Len(prices) - period), Len(prices))
          m      == Len(data) - 1
          change == [j \in 1..m |-> data[j + 1] - data[j]]
          gains  == SumSeq([j \in 1..m |-> IF change[j] > 0 THEN change[j] ELSE 0])
          losses == SumSeq([j \in 1..m |-> IF change[j] > 0 THEN 0 ELSE -change[j]])
      IN  IF losses = 0 THEN Rat(100, 1)
          ELSE Rat(100 * gains, gains + losses)

CalculateRSI(prices, period) ==
    IF Len(prices) < period + 1 THEN Rat(50, 1)
    ELSE IF period = 0 THEN NaN
    ELSE
      LET data   == SubSeq(prices, Len(prices) - period, Len(prices))
          change == [j \in 1..period |-> data[j + 1] - data[j]]
          gains  == SumSeq([j \in 1..period |-> IF change[j] > 0 THEN change[j] ELSE 0])
          losses == SumSeq([j \in 1..period |-> IF change[j] > 0 THEN 0 ELSE -change[j]])
      IN  IF losses = 0 THEN Rat(100, 1)
          ELSE Rat(100 * gains, gains + losses)

----------------------------------------------------------------------------
(* MathHelper.Divide of pkg/utils: the result and whether an error is returned *)

\* a / b for b # 0, in lowest terms with a positive denominator
Quotient(a, b) ==
    LET g == GCD(a, b)
    IN  Rat(Sgn(b) * (a \div g), Abs(b) \div g)

\* variant: no test of b, a division by zero giving +Inf, -Inf or the 0/0
\* that is NaN (C22 fails with it)
DivideUnchecked(a, b) ==
    IF b = 0 THEN [result |-> IF a = 0 THEN NaN ELSE [inf |-> Sgn(a)], err |-> FALSE]
    ELSE [result |-> Quotient(a, b), err |-> FALSE]

Divide(a, b) ==
    IF b = 0 THEN [result |-> Rat(0, 1), err |-> TRUE]
    ELSE [result |-> Quotient(a, b), err |-> FALSE]

----------------------------------------------------------------------------
\* lo <= r <= hi
RatBetween(r, lo, hi) == r.num >= lo * r.den /\ r.num <= hi * r.den

\* variant: the upward band has no ceiling (C10 fails with it)
RSIFilterNoCeiling(rsi, signalType) ==
    CASE signalType \in {"UP_BREAKOUT", "RETEST_SUCCESS_UP"}     -> RatBetween(rsi, 30, 100)
      [] signalType \in {"DOWN_BREAKOUT", "RETEST_SUCCESS_DOWN"} -> RatBetween(rsi, 20, 70)
      [] OTHER -> TRUE

\* variant: a failed retest is held to the band of its side (C9 fails with it)
RSIFilterFailed(rsi, signalType) ==
    CASE signalType \in {"UP_BREAKOUT", "RETEST_SUCCESS_UP"}     -> RatBetween(rsi, 30, 80)
      [] signalType \in {"DOWN_BREAKOUT", "RETEST_SUCCESS_DOWN"} -> RatBetween(rsi, 20, 70)
      [] OTHER -> RatBetween(rsi, 20, 70)

RSIFilter(rsi, signalType) ==
    CASE signalType \in {"UP_BREAKOUT", "RETEST_SUCCESS_UP"}     -> RatBetween(rsi, 30, 80)
      [] signalType \in {"DOWN_BREAKOUT", "RETEST_SUCCESS_DOWN"} -> RatBetween(rsi, 20, 70)
      [] OTHER -> TRUE

----------------------------------------------------------------------------
(* float64 quotients of the engine *)

\* a confidence is Num(v), the value v/ConfScale, or NaN, or -Inf
Num(v) == [v |-> v]

NegInf == [neginf |-> TRUE]

IsNum(c) == c # NaN /\ c # NegInf

\* variant: the product without math.Min (C2 fails with it)
MinScaledUncapped(c, p, q) == IF IsNum(c) THEN Num((c.v * p) \div q) ELSE c

\* math.Min(c * p/q, 1.0)
MinScaled(c, p, q) == IF IsNum(c) THEN Num(Min((c.v * p) \div q, ConfScale)) ELSE c

\* the quotient num/den of two integers, compared with a/b (b > 0) as IEEE-754
\* compares: x/0 is +Inf, -Inf or NaN, and NaN is neither less nor greater
QuotLt(num, den, a, b) ==
    IF den > 0 THEN num * b < a * den
    ELSE IF den < 0 THEN num * b > a * den
    ELSE num < 0

QuotGt(num, den, a, b) ==
    IF den > 0 THEN num * b > a * den
    ELSE IF den < 0 THEN num * b < a * den
    ELSE num > 0

\* the largest t in lo..hi with t * deviation <= RatioScale * distance,
\* given that lo is one
RECURSIVE TruncQuot(_, _, _, _, _)
TruncQuot(lo, hi, distance, deviation, ch) ==
    IF lo >= hi THEN lo
    ELSE LET mid == (lo + hi + 1) \div 2
         IN  IF Le(VScale(deviation, mid, 1), VScale(distance, RatioScale, 1), ch)
             THEN TruncQuot(mid, hi, distance, deviation, ch)
             ELSE TruncQuot(lo, mid - 1, distance, deviation, ch)

\* the least t >= lo with t * deviation >= RatioScale * distance
RECURSIVE CeilQuot(_, _, _, _)
CeilQuot(lo, distance, deviation, ch) ==
    IF Ge(VScale(deviation, lo, 1), VScale(distance, RatioScale, 1), ch) THEN lo
    ELSE CeilQuot(lo + 1, distance, deviation, ch)

----------------------------------------------------------------------------
(* calculateSupport, calculateRetestStrength, calculateConfidence *)

LookbackStart(currentIndex, lookback) == Max(currentIndex - lookback, 0)

\* variant: the closes are counted, not the highs and lows (C25 fails with it)
calculateSupportClose(klines, currentIndex, level, isSupport, lookback, ch) ==
    Cardinality({j \in LookbackStart(currentIndex, lookback)..(currentIndex - 1) :
        IF isSupport THEN Ge(VInt(At(klines, j).Close), level, ch)
                     ELSE Le(VInt(At(klines, j).Close), level, ch)})

calculateSupport(klines, currentIndex, level, isSupport, lookback, ch) ==
    Cardinality({j \in LookbackStart(currentIndex, lookback)..(currentIndex - 1) :
        IF isSupport THEN Ge(VInt(At(klines, j).Low), level, ch)
                     ELSE Le(VInt(At(klines, j).High), level, ch)})

calculateRetestStrength(klines, currentIndex, level, isSupport, lookback, ch) ==
    LET tolerance == VScale(level, 5, 1000)
    IN  Cardinality({j \in LookbackStart(currentIndex, lookback)..(currentIndex - 1) :
            IF isSupport
            THEN Le(VInt(At(klines, j).Low), VAdd(level, tolerance), ch)
                 /\ Gt(VInt(At(klines, j).Close), level, ch)
            ELSE Ge(VInt(At(klines, j).High), VSub(level, tolerance), ch)
                 /\ Lt(VInt(At(klines, j).Close), level, ch)})

\* variant: a distance over a zero deviation is not a number (C26 fails with it)
calculateConfidenceUndefined(strength, distance, deviation, ch) ==
    LET strengthConfidence == Min((strength * ConfScale) \div 10, ConfScale)
        ds == VSign(distance, ch.sse, ch.n)
        distanceConfidence ==
            IF VSign(deviation, ch.sse, ch.n) = 0 THEN NaN
            ELSE IF Ge(distance, deviation, ch) THEN Num(ConfScale)
            ELSE IF ds >= 0
                 THEN Num(TruncQuot(0, RatioScale, distance, deviation, ch) * (ConfScale \div RatioScale))
                 ELSE Num((0 - CeilQuot(1, VScale(distance, -1, 1), deviation, ch)) * (ConfScale \div RatioScale))
    IN  IF IsNum(distanceConfidence)
        THEN Num(Min((strengthConfidence + distanceConfidence.v) \div 2, ConfScale))
        ELSE distanceConfidence

calculateConfidence(strength, distance, deviation, ch) ==
    LET strengthConfidence == Min((strength * ConfScale) \div 10, ConfScale)
        ds == VSign(distance, ch.sse, ch.n)
        distanceConfidence ==
            IF VSign(deviation, ch.sse, ch.n) = 0
            THEN IF ds > 0 THEN Num(ConfScale) ELSE IF ds = 0 THEN NaN ELSE NegInf
            ELSE IF Ge(distance, deviation, ch) THEN Num(ConfScale)
            ELSE IF ds >= 0
                 THEN Num(TruncQuot(0, RatioScale, distance, deviation, ch) * (ConfScale \div RatioScale))
                 ELSE Num((0 - CeilQuot(1, VScale(distance, -1, 1), deviation, ch)) * (ConfScale \div RatioScale))
    IN  IF IsNum(distanceConfidence)
        THEN Num(Min((strengthConfidence + distanceConfidence.v) \div 2, ConfScale))
        ELSE distanceConfidence

----------------------------------------------------------------------------
(* checkBreakout *)

Signal(type, index, kline, level, strength, confidence) ==
    [Type |-> type, Index |-> index, Price |-> kline.Close, ChannelLevel |-> level,
     Strength |-> strength, Confidence |-> confidence, RSI |-> Rat(0, 1)]

\* variant: the volume bonus whatever the volume (C23 fails with it)
BreakoutConfidenceAlways(kline, index, klines, strength, distance, channel) ==
    LET c0 == calculateConfidence(strength, distance, channel.Deviation, channel)
        c1 == MinScaled(c0, 11, 10)
        candleBody  == Abs(kline.Close - kline.Open)
        candleRange == kline.High - kline.Low
    IN  IF candleRange > 0 /\ QuotGt(candleBody, candleRange, 7, 10)
        THEN MinScaled(c1, 105, 100) ELSE c1

\* the confidence of a breakout of kline beyond level, distance being how far
BreakoutConfidence(kline, index, klines, strength, distance, channel) ==
    LET volumeConfirmed ==
            IF index > 0 THEN kline.Volume * 10 > At(klines, index - 1).Volume * 11 ELSE TRUE
        c0 == calculateConfidence(strength, distance, channel.Deviation, channel)
        c1 == IF volumeConfirmed THEN MinScaled(c0, 11, 10) ELSE c0
        candleBody  == Abs(kline.Close - kline.Open)
        candleRange == kline.High - kline.Low
    IN  IF candleRange > 0 /\ QuotGt(candleBody, candleRange, 7, 10)
        THEN MinScaled(c1, 105, 100) ELSE c1

\* variant: >= in place of > (C4 fails with it)
UpBreakoutTestLoose(kline, channel) ==
    LET minBreakoutThreshold == VScale(channel.Deviation, 1, 10)
    IN  IsGreen(kline) /\ Ge(VInt(kline.Close), VAdd(channel.UpperLine, minBreakoutThreshold), channel)

UpBreakoutTest(kline, channel) ==
    LET minBreakoutThreshold == VScale(channel.Deviation, 1, 10)
    IN  IsGreen(kline) /\ Gt(VInt(kline.Close), VAdd(channel.UpperLine, minBreakoutThreshold), channel)

DownBreakoutTest(kline, channel) ==
    LET minBreakoutThreshold == VScale(channel.Deviation, 1, 10)
    IN  IsRed(kline) /\ Lt(VInt(kline.Close), VSub(channel.LowerLine, minBreakoutThreshold), channel)

checkBreakout(kline, channel, index, klines) ==
    IF channel = NaN THEN Nil
    ELSE IF UpBreakoutTest(kline, channel)
    THEN LET strength == calculateSupport(klines, index, channel.UpperLine, FALSE, StrengthLookback, channel)
         IN  Signal("UP_BREAKOUT", index, kline, channel.UpperLine, strength,
                    BreakoutConfidence(kline, index, klines, strength,
                                       VSub(VInt(kline.Close), channel.UpperLine), channel))
    ELSE IF DownBreakoutTest(kline, channel)
    THEN LET strength == calculateSupport(klines, index, channel.LowerLine, TRUE, StrengthLookback, channel)
         IN  Signal("DOWN_BREAKOUT", index, kline, channel.LowerLine, strength,
                    BreakoutConfidence(kline, index, klines, strength,
                                       VSub(channel.LowerLine, VInt(kline.Close)), channel))
    ELSE Nil

----------------------------------------------------------------------------
(* findRecentBreakout, checkRetest *)

\* the loop of findRecentBreakout from index j down to start
RECURSIVE findFrom(_, _, _, _)
findFrom(klines, j, start, channel) ==
    IF j < start THEN Nil
    ELSE
      LET kline == At(klines, j)
          minBreakoutThreshold == VScale(channel.Deviation, 1, 10)
      IN  IF Gt(VInt(kline.Close), VAdd(channel.UpperLine, minBreakoutThreshold), channel)
          THEN [BreakoutType |-> "UP", Price |-> kline.Close, Index |-> j,
                Level |-> channel.UpperLine]
          ELSE IF Lt(VInt(kline.Close), VSub(channel.LowerLine, minBreakoutThreshold), channel)
          THEN [BreakoutType |-> "DOWN", Price |-> kline.Close, Index |-> j,
                Level |-> channel.LowerLine]
          ELSE findFrom(klines, j - 1, start, channel)

\* variant: whatever close is found counts as an UP breakout (C5 fails with it)
findRecentBreakoutUp(klines, currentIndex, channel, lookback) ==
    LET b == IF channel = NaN THEN Nil
             ELSE findFrom(klines, currentIndex - 1, LookbackStart(currentIndex, lookback), channel)
    IN  IF b = Nil THEN Nil
        ELSE [b EXCEPT !.BreakoutType = "UP", !.Level = channel.UpperLine]

\* variant: one candle more is searched (C6 fails with it)
findRecentBreakoutWide(klines, currentIndex, channel, lookback) ==
    IF channel = NaN THEN Nil
    ELSE findFrom(klines, currentIndex - 1, LookbackStart(currentIndex, lookback + 1), channel)

\* variant: the oldest qualifying close of the lookback is returned, not the
\* most recent (C27 fails with it)
findRecentBreakoutOldest(klines, currentIndex, channel, lookback) ==
    IF channel = NaN THEN Nil
    ELSE LET found == {j \in LookbackStart(currentIndex, lookback)..(currentIndex - 1) :
                          findFrom(klines, j, j, channel) # Nil}
         IN  IF found = {} THEN Nil
             ELSE findFrom(klines, CHOOSE j \in found : \A k \in found : j <= k,
                           LookbackStart(currentIndex, lookback), channel)

findRecentBreakout(klines, currentIndex, channel, lookback) ==
    IF channel = NaN THEN Nil
    ELSE findFrom(klines, currentIndex - 1, LookbackStart(currentIndex, lookback), channel)

\* variant: a base of 0.60 (C12 fails with it)
RetestConfidenceLow(strength, strongBounce) ==
    LET confidence == Num((60 * ConfScale) \div 100 + (strength * 25 * ConfScale) \div 1000)
    IN  MinScaled(IF strongBounce THEN MinScaled(confidence, 11, 10) ELSE confidence, 1, 1)

\* variant: no part for the strength (C24 fails with it)
RetestConfidenceFlat(strength, strongBounce) ==
    LET confidence == Num((70 * ConfScale) \div 100)
    IN  MinScaled(IF strongBounce THEN MinScaled(confidence, 11, 10) ELSE confidence, 1, 1)

\* 0.70 + (strength/10)*0.25, times 1.1 capped at 1.0 for a strong bounce
RetestConfidence(strength, strongBounce) ==
    LET confidence == Num((70 * ConfScale) \div 100 + (strength * 25 * ConfScale) \div 1000)
    IN  MinScaled(IF strongBounce THEN MinScaled(confidence, 11, 10) ELSE confidence, 1, 1)

\* variant: the close is not compared with the level (C8 fails with it)
UpperRetestTestNoClose(kline, channel) ==
    LET tolerance == VScale(channel.Deviation, 15, 100)
    IN  Le(VInt(kline.Low), VAdd(channel.UpperLine, tolerance), channel)

\* the tests of checkRetest; tolerance is channel.Deviation * 0.15
UpperRetestTest(kline, channel) ==
    LET tolerance == VScale(channel.Deviation, 15, 100)
    IN  /\ Le(VInt(kline.Low), VAdd(channel.UpperLine, tolerance), channel)
        /\ Gt(VInt(kline.Close), channel.UpperLine, channel)

\* variant: a close at the level is a failure already (C20 fails with it)
UpperFailedTestLoose(kline, channel) ==
    LET tolerance == VScale(channel.Deviation, 15, 100)
    IN  Le(VInt(kline.Close), VSub(channel.UpperLine, tolerance), channel)

UpperFailedTest(kline, channel) ==
    LET tolerance == VScale(channel.Deviation, 15, 100)
    IN  Lt(VInt(kline.Close), VSub(channel.UpperLine, tolerance), channel)

LowerRetestTest(kline, channel) ==
    LET tolerance == VScale(channel.Deviation, 15, 100)
    IN  /\ Ge(VInt(kline.High), VSub(channel.LowerLine, tolerance), channel)
        /\ Lt(VInt(kline.Close), channel.LowerLine, channel)

LowerFailedTest(kline, channel) ==
    LET tolerance == VScale(channel.Deviation, 15, 100)
    IN  Gt(VInt(kline.Close), VAdd(channel.LowerLine, tolerance), channel)

\* bounceStrength < 0.6, for the quotient part/(High - Low)
WeakBounce(part, kline) == QuotLt(part, kline.High - kline.Low, 6, 10)

\* bounceStrength > 0.8
StrongBounce(part, kline) == QuotGt(part, kline.High - kline.Low, 8, 10)

RetestFailed(index, kline, level) ==
    Signal("RETEST_FAILED", index, kline, level, 0, Num((8 * ConfScale) \div 10))

checkRetest(kline, channel, index, klines) ==
    LET breakoutInfo == findRecentBreakout(klines, index, channel, RetestLookback)
    IN
    IF breakoutInfo = Nil THEN Nil
    ELSE IF breakoutInfo.BreakoutType = "UP"
    THEN
      IF UpperRetestTest(kline, channel)
      THEN
        IF WeakBounce(kline.Close - kline.Low, kline) THEN Nil
        ELSE LET strength == calculateRetestStrength(klines, index, channel.UpperLine,
                                                     TRUE, StrengthLookback, channel)
             IN  Signal("RETEST_SUCCESS", index, kline, channel.UpperLine, strength,
                        RetestConfidence(strength, StrongBounce(kline.Close - kline.Low, kline)))
      ELSE IF UpperFailedTest(kline, channel)
      THEN RetestFailed(index, kline, channel.UpperLine)
      ELSE Nil
    ELSE
      IF LowerRetestTest(kline, channel)
      THEN
        IF WeakBounce(kline.High - kline.Close, kline) THEN Nil
        ELSE LET strength == calculateRetestStrength(klines, index, channel.LowerLine,
                                                     FALSE, StrengthLookback, channel)
             IN  Signal("RETEST_SUCCESS", index, kline, channel.LowerLine, strength,
                        RetestConfidence(strength, StrongBounce(kline.High - kline.Close, kline)))
      ELSE IF LowerFailedTest(kline, channel)
      THEN RetestFailed(index, kline, channel.LowerLine)
      ELSE Nil

----------------------------------------------------------------------------
(* Inputs *)

\* candle shapes around a close c
Doji(c) == Kline(c, c, c, c, 1)

Bull(c, v) == Kline(c - 1, c, c - 1, c, v)

Bear(c, v) == Kline(c + 1, c + 1, c, c, v)

\* bullish, long lower wick: closes at its high
Hammer(c) == Kline(c - 1, c, c - 4, c, 1)

\* bearish, long upper wick: closes at its low
Inverted(c) == Kline(c + 1, c + 4, c, c, 1)

\* bullish, closes three quarters up its range
Spinner(c) == Kline(c - 1, c + 1, c - 3, c, 1)

\* bullish, long upper wick: closes a quarter up its range
Star(c) == Kline(c - 1, c + 3, c - 1, c, 1)

\* the candles of the analysis window
CandleSet ==
    {Doji(30), Doji(34),
     Bull(30, 2), Bull(34, 2), Bear(34, 1), Hammer(34), Spinner(34), Star(34),
     Bear(28, 2)}

\* the fitting windows: Length closes, the first one the lower price
FitWindows == {f \in [1..Length -> FitPrices] : \A p \in FitPrices : f[1] <= p}

\* the candles before the analysis window: pre candles whose last Length
\* closes are the fitting window f, after a flat history
Prefix(f, pre) == [j \in 1..pre |-> Doji(f[Max(1, Length - pre + j)])]

MaxLen == Length + AnalysisWindow + MaxExtra

\* positions j in from..Len(ks)-1 (0-based) whose candle differs from the one before
Changes(ks, from) == Cardinality({j \in from..(Len(ks) - 1) : At(ks, j) # At(ks, j - 1)})

\* the candles that may follow ks in the analysis window, which starts at from
NextCandles(ks, from) ==
    IF Changes(ks, from) < MaxChanges THEN CandleSet ELSE {At(ks, Len(ks) - 1)}

\* the prices of a direct call of CalculateLinearRegressionChannel
ChannelPrices == 30..33

PriceLists == UNION {[1..m -> ChannelPrices] : m \in 0..(Length + 1)}

\* the prices and periods of a direct call of CalculateRSI
\* prices that round, 2, 2.0625 and 2.875: the first has one significant bit,
\* the others all FloatBits
FloatPrices == {2 * FloatUnit, (33 * FloatUnit) \div 16, (23 * FloatUnit) \div 8}

FloatLists == UNION {[1..m -> FloatPrices] : m \in 0..(Length + 2)}

\* the operands of MathHelper.Divide
DivideOperands == {-3, 0, 2, 10}

RSIPrices == {0, 1, 3}

MaxPeriod == 3

RSILists == UNION {[1..m -> RSIPrices] : m \in 0..(MaxPeriod + 1)}

\* A rising series whose every analysed candle has the RSIPeriod + 1 closes
\* CalculateRSI needs: closes step by 1 up to the fitting window, by w inside
\* it and by a after it; the candles are Dojis, those of the analysis window
\* bullish if bull; the last candle jumps by last, on twice the volume, its
\* body 9/10 of its range.
RisingLen == RSIPeriod + 1 + AnalysisWindow

RisingClose(j, w, a) ==
    LET first == RisingLen - AnalysisWindow - Length
    IN  IF j <= first THEN 10 + j
        ELSE IF j < first + Length
        THEN 10 + first + SumSeq([k \in 1..(j - first) |-> w[k]])
        ELSE 10 + first + SumSeq(w) + a * (j - first - Length + 1)

RisingSeries(w, a, bull, last) ==
    [j \in 1..RisingLen |->
        LET c == RisingClose(j - 1, w, a)
        IN  IF j = RisingLen
            THEN LET cl == RisingClose(j - 2, w, a) + last
                 IN  Kline(cl - 9, cl, cl - 10, cl, 2)
            ELSE IF bull /\ j > RisingLen - AnalysisWindow THEN Bull(c, 1)
            ELSE Doji(c)]

\* A series of the MinCandles candles hasSuccessfulRetest asks for, all of
\* it given: a flat history, the fitting window f, the candle quiet up to the
\* last two candles of the analysis window, then the candles move and last
RetestSeries(f, quiet, move, last) ==
    Prefix(f, MinCandles - AnalysisWindow)
    \o [j \in 1..(AnalysisWindow - 2) |-> quiet] \o <<move, last>>

\* the candles appended to a series that ended in an UP_BREAKOUT
RetestCandles == {Hammer(34), Bull(35, 1)}

----------------------------------------------------------------------------
(* State *)

VARIABLES
    op,         \* the function called
    pc,         \* "start", "loop" (DetectBreakouts' for loop) or "done"
    klines,     \* DetectBreakouts: the candles of the input read so far
    n,          \* DetectBreakouts: len(klines) of the input
    prices,     \* CalculateLinearRegressionChannel called directly: its prices
    length,     \* ... and its length
    channel,    \* the channel fitted, Nil before and when none is
    i,          \* DetectBreakouts: the loop index
    currentRSI, \* DetectBreakouts: the RSI of the last iteration
    breakout,   \* DetectBreakouts: what checkBreakout returned in the last iteration
    retest,     \* DetectBreakouts: what checkRetest returned in the last iteration
    signals,    \* DetectBreakouts: the signals appended so far; the result when done
    period,     \* CalculateRSI called directly: its period (its prices are prices)
    earlier,    \* DetectBreakouts called again on the series plus one candle:
                \* the channel and the result of the call before, else Nil
    rounding,   \* CalculateLinearRegressionChannel called directly: TRUE when
                \* its prices are floats whose sums and products round
    operands,   \* MathHelper.Divide: <<a, b>>, else <<>>
    quotient,   \* MathHelper.Divide: what it returned, Nil before
    outcome     \* what a caller of the analyzer made of its result: the
                \* BreakoutData of the package-level DetectBreakouts or the
                \* value of hasSuccessfulRetest, Nil while none was called

vars == <<op, pc, klines, n, prices, length, channel, i, currentRSI, breakout, retest,
          signals, period, earlier, rounding, operands, quotient, outcome>>

\* The loop reads klines[j] only for j <= i, so the candle at index i is
\* drawn when iteration i runs; klines holds the candles below the analysis
\* window from the start.
InitDetect ==
    /\ op = "DetectBreakouts"
    /\ n \in 0..MaxLen
    /\ \E f \in FitWindows :
          klines = Prefix(f, IF n < Length + AnalysisWindow THEN n ELSE n - AnalysisWindow)
    /\ prices = <<>>
    /\ length = Length
    /\ period = 0
    /\ rounding = FALSE

\* DetectBreakouts on a rising series, all of it given
InitRising ==
    /\ op = "DetectBreakouts"
    /\ n = RisingLen
    /\ \E w \in [1..(Length - 1) -> 1..3], a \in 1..2, bull \in BOOLEAN, last \in {5, 10} :
          klines = RisingSeries(w, a, bull, last)
    /\ prices = <<>>
    /\ length = Length
    /\ period = 0
    /\ rounding = FALSE

\* DetectBreakouts on a series that ends in a move and a candle after it
InitRetest ==
    /\ op = "DetectBreakouts"
    /\ n = MinCandles
    /\ \E f \in FitWindows, quiet \in {Doji(30), Doji(33)}, move \in {Bull(35, 2), Bear(28, 2)},
          last \in {Hammer(34), Inverted(29)} :
          klines = RetestSeries(f, quiet, move, last)
    /\ prices = <<>>
    /\ length = Length
    /\ period = 0
    /\ rounding = FALSE

InitChannel ==
    /\ op = "CalculateLinearRegressionChannel"
    /\ \/ rounding = FALSE /\ prices \in PriceLists /\ length \in 0..(Length + 1)
       \/ rounding = TRUE /\ prices \in FloatLists /\ length \in 0..(Length + 2)
    /\ klines = <<>>
    /\ n = 0
    /\ period = 0

InitRSI ==
    /\ op = "CalculateRSI"
    /\ prices \in RSILists
    /\ period \in 0..MaxPeriod
    /\ length = 0
    /\ klines = <<>>
    /\ n = 0
    /\ rounding = FALSE

InitDivide ==
    /\ op = "Divide"
    /\ operands \in DivideOperands \X DivideOperands
    /\ prices = <<>>
    /\ length = 0
    /\ klines = <<>>
    /\ n = 0
    /\ period = 0
    /\ rounding = FALSE

Init ==
    /\ \/ (InitDetect \/ InitRising \/ InitRetest \/ InitChannel \/ InitRSI) /\ operands = <<>>
       \/ InitDivide
    /\ quotient = Nil
    /\ outcome = Nil
    /\ earlier = Nil
    /\ pc = "start"
    /\ channel = Nil
    /\ i = 0
    /\ currentRSI = Rat(0, 1)
    /\ breakout = Nil
    /\ retest = Nil
    /\ signals = <<>>

----------------------------------------------------------------------------
(* Actions *)

\* a direct call of CalculateLinearRegressionChannel
CallChannel ==
    /\ op = "CalculateLinearRegressionChannel"
    /\ pc = "start"
    /\ channel' = IF rounding THEN CalculateLinearRegressionChannelRounded(prices, length)
                   ELSE CalculateLinearRegressionChannel(prices, length)
    /\ pc' = "done"
    /\ UNCHANGED <<op, klines, n, prices, length, i, currentRSI, breakout, retest, signals,
                   period, earlier, rounding,
                   operands, quotient, outcome>>

\* a call of MathHelper.Divide
CallDivide ==
    /\ op = "Divide"
    /\ pc = "start"
    /\ quotient' = Divide(operands[1], operands[2])
    /\ pc' = "done"
    /\ UNCHANGED <<op, klines, n, prices, length, channel, i, currentRSI, breakout, retest,
                   signals, period, earlier, rounding, operands, outcome>>

\* a direct call of CalculateRSI
CallRSI ==
    /\ op = "CalculateRSI"
    /\ pc = "start"
    /\ currentRSI' = CalculateRSI(prices, period)
    /\ pc' = "done"
    /\ UNCHANGED <<op, klines, n, prices, length, channel, i, breakout, retest, signals,
                   period, earlier, rounding,
                   operands, quotient, outcome>>

\* DetectBreakouts up to its loop: the length check and the one channel fit
Enter ==
    /\ op = "DetectBreakouts"
    /\ pc = "start"
    /\ IF n < length + AnalysisWindow
       THEN /\ pc' = "done"
            /\ UNCHANGED <<channel, i>>
       ELSE LET analysisEnd == n - AnalysisWindow
                ch == CalculateLinearRegressionChannel(Upto(Closes(klines), analysisEnd), length)
            IN  /\ channel' = ch
                /\ i' = analysisEnd
                /\ pc' = IF ch = Nil THEN "done" ELSE "loop"
    /\ UNCHANGED <<op, klines, n, prices, length, currentRSI, breakout, retest, signals,
                   period, earlier, rounding,
                   operands, quotient, outcome>>

\* the retest type DetectBreakouts hands to RSIFilter
RetestType(signal, ch) ==
    IF signal.Type = "RETEST_SUCCESS"
    THEN IF Gt(VInt(signal.Price), signal.ChannelLevel, ch)
         THEN "RETEST_SUCCESS_UP" ELSE "RETEST_SUCCESS_DOWN"
    ELSE signal.Type

\* variant: the retest of a candle is appended before its breakout (C21 fails
\* with it)
LoopBodyRetestFirst(ks, kline, index, ch) ==
    LET rsi == CalculateRSI(Upto(Closes(ks), index + 1), RSIPeriod)
        b0  == checkBreakout(kline, ch, index, ks)
        r0  == checkRetest(kline, ch, index, ks)
        b   == IF b0 = Nil THEN Nil ELSE [b0 EXCEPT !.RSI = rsi]
        r   == IF r0 = Nil THEN Nil ELSE [r0 EXCEPT !.RSI = rsi]
    IN  [rsi |-> rsi, breakout |-> b, retest |-> r,
         appended |->
            (IF r0 # Nil /\ RSIFilter(rsi, RetestType(r0, ch)) THEN <<r>> ELSE <<>>)
            \o (IF b0 # Nil /\ RSIFilter(rsi, b0.Type) THEN <<b>> ELSE <<>>)]

\* the body of the loop on the candle kline at index index, ks being the
\* candles up to it: the RSI, what the two checks return, what is appended
LoopBody(ks, kline, index, ch) ==
    LET rsi == CalculateRSI(Upto(Closes(ks), index + 1), RSIPeriod)
        b0  == checkBreakout(kline, ch, index, ks)
        r0  == checkRetest(kline, ch, index, ks)
        b   == IF b0 = Nil THEN Nil ELSE [b0 EXCEPT !.RSI = rsi]
        r   == IF r0 = Nil THEN Nil ELSE [r0 EXCEPT !.RSI = rsi]
    IN  [rsi |-> rsi, breakout |-> b, retest |-> r,
         appended |->
            (IF b0 # Nil /\ RSIFilter(rsi, b0.Type) THEN <<b>> ELSE <<>>)
            \o (IF r0 # Nil /\ RSIFilter(rsi, RetestType(r0, ch)) THEN <<r>> ELSE <<>>)]

\* one iteration of the loop, on the candle kline at index i, which is
\* klines[i] when the series is given and is added to klines when it is drawn
Iterate(kline) ==
    \E ks \in {IF Len(klines) > i THEN klines ELSE Append(klines, kline)} :
    \E body \in {LoopBody(ks, kline, i, channel)} :
        /\ klines' = ks
        /\ currentRSI' = body.rsi
        /\ breakout' = body.breakout
        /\ retest' = body.retest
        /\ signals' = signals \o body.appended
        /\ i' = i + 1

Analyze ==
    /\ pc = "loop"
    /\ i < n
    /\ \E kline \in (IF Len(klines) > i THEN {At(klines, i)}
                      ELSE NextCandles(klines, n - AnalysisWindow)) : Iterate(kline)
    /\ UNCHANGED <<op, pc, n, prices, length, channel, period, earlier, rounding,
                   operands, quotient, outcome>>

Return ==
    /\ pc = "loop"
    /\ i >= n
    /\ pc' = "done"
    /\ UNCHANGED <<op, klines, n, prices, length, channel, i, currentRSI, breakout, retest,
                   signals, period, earlier, rounding,
                   operands, quotient, outcome>>

\* DetectBreakouts has returned a result that ends in an UP_BREAKOUT of the
\* last candle: it is called again on the series with one more candle, the
\* series being no longer than MaxLen
Extend ==
    /\ op = "DetectBreakouts"
    /\ pc = "done"
    /\ earlier = Nil
    /\ n < MaxLen
    /\ signals # <<>>
    /\ signals[Len(signals)].Type = "UP_BREAKOUT"
    /\ signals[Len(signals)].Index = n - 1
    /\ \E kline \in RetestCandles : klines' = Append(klines, kline)
    /\ n' = n + 1
    /\ earlier' = [channel |-> channel, signals |-> signals]
    /\ pc' = "start"
    /\ channel' = Nil
    /\ i' = 0
    /\ currentRSI' = Rat(0, 1)
    /\ breakout' = Nil
    /\ retest' = Nil
    /\ signals' = <<>>
    /\ outcome' = Nil
    /\ UNCHANGED <<op, prices, length, period, rounding, operands, quotient>>

\* the periods the package-level DetectBreakouts is called with: 14 is what
\* its callers pass, a length the analyzer accepts falls short of it
Periods == {2, RSIPeriod}

\* the BreakoutData of no breakout
Neutral == [HasBreakout |-> FALSE, Direction |-> "NEUTRAL", Confidence |-> Num(0)]

\* the package-level DetectBreakouts(symbol, candles, period, deviation):
\* count is len(candles) and sigs what its analyzer returns for the candles,
\* whose conversion to Kline keeps the prices and sets IsGreen and IsRed as
\* the analyzer reads them
DetectBreakoutsData(count, sigs, per) ==
    IF count < per THEN Neutral
    ELSE IF Len(sigs) = 0 THEN Neutral
    ELSE LET latestSignal == sigs[Len(sigs)]
         IN  IF latestSignal.Type \in {"UP_BREAKOUT", "RETEST_SUCCESS"}
             THEN [HasBreakout |-> TRUE, Direction |-> "UP",
                   Confidence |-> latestSignal.Confidence]
             ELSE IF latestSignal.Type \in {"DOWN_BREAKOUT", "RETEST_FAILED"}
             THEN [HasBreakout |-> TRUE, Direction |-> "DOWN",
                   Confidence |-> latestSignal.Confidence]
             ELSE [HasBreakout |-> FALSE, Direction |-> "NEUTRAL",
                   Confidence |-> latestSignal.Confidence]

\* confidence > 60.0 of hasSuccessfulRetest: the Confidence itself, a
\* fraction of 1, is compared with 60
AboveSixty(confidence) == IsNum(confidence) /\ confidence.v > 60 * ConfScale

\* AutoTrader.hasSuccessfulRetest(symbol, candles): count is len(candles) and
\* sigs what its analyzer returns for the candles
hasSuccessfulRetest(count, sigs) ==
    IF count < MinCandles THEN FALSE
    ELSE IF \E k \in 1..Len(sigs) :
                sigs[k].Type = "RETEST_SUCCESS" /\ AboveSixty(sigs[k].Confidence)
         THEN TRUE
    ELSE LET breakoutData == DetectBreakoutsData(count, sigs, 14)
         IN  breakoutData.HasBreakout /\ AboveSixty(breakoutData.Confidence)

\* the package-level DetectBreakouts, whose analyzer has returned signals
CallBreakoutData ==
    /\ op = "DetectBreakouts"
    /\ pc = "done"
    /\ outcome = Nil
    /\ \E per \in Periods :
          outcome' = [caller |-> "DetectBreakouts", period |-> per,
                      data |-> DetectBreakoutsData(n, signals, per)]
    /\ UNCHANGED <<op, pc, klines, n, prices, length, channel, i, currentRSI, breakout, retest,
                   signals, period, earlier, rounding, operands, quotient>>

\* hasSuccessfulRetest, whose analyzer has returned signals
CallHasSuccessfulRetest ==
    /\ op = "DetectBreakouts"
    /\ pc = "done"
    /\ outcome = Nil
    /\ outcome' = [caller |-> "hasSuccessfulRetest",
                   value |-> hasSuccessfulRetest(n, signals)]
    /\ UNCHANGED <<op, pc, klines, n, prices, length, channel, i, currentRSI, breakout, retest,
                   signals, period, earlier, rounding, operands, quotient>>

Next ==
    \/ CallChannel \/ CallRSI \/ CallDivide \/ Enter \/ Analyze \/ Return \/ Extend
    \/ CallBreakoutData \/ CallHasSuccessfulRetest

Spec == Init /\ [][Next]_vars


----------------------------------------------------------------------------
(* Properties *)

\* an iteration of DetectBreakouts' loop has run: it judged the candle at i - 1
Judged == op = "DetectBreakouts" /\ pc # "start" /\ channel # Nil /\ i > n - AnalysisWindow

\* the sign of x - (MiddleLine + (p/q) * Deviation) in the fitted channel:
\* UpperLine is p/q = DevLength, LowerLine is p/q = -DevLength
OffMiddle(x, p, q) ==
    VSign(VSub(VSub(VInt(x), channel.MiddleLine), VScale(channel.Deviation, p, q)),
          channel.sse, channel.n)

\* x is above UpperLine + 0.1 * Deviation, below LowerLine - 0.1 * Deviation
AboveUpperMargin(x) == OffMiddle(x, 10 * DevLength + 1, 10) > 0

BelowLowerMargin(x) == OffMiddle(x, -(10 * DevLength + 1), 10) < 0

\* the indices findRecentBreakout may look at for the candle at index
Recent(index) == Max(index - RetestLookback, 0)..(index - 1)

\* the signals of the result that are of the type and about the candle at index
Reported(type, index) ==
    {k \in 1..Len(signals) : signals[k].Type = type /\ signals[k].Index = index}

\* C1: DetectBreakouts returns an empty list for fewer than Length + 10
\* candles, CalculateLinearRegressionChannel returns no channel for fewer
\* than length prices, and a channel exists only where at least the fitting
\* length of prices was there to fit.
C1_ShortInputYieldsNothing ==
    /\ (op = "DetectBreakouts" /\ n < Length + AnalysisWindow)
          => (signals = <<>> /\ channel = Nil /\ pc # "loop")
    /\ (op = "CalculateLinearRegressionChannel" /\ Len(prices) < length)
          => channel = Nil
    /\ channel # Nil
          => IF op = "DetectBreakouts" THEN n - AnalysisWindow >= Length
             ELSE Len(prices) >= length

\* DetectBreakouts has returned for an input one candle short of Length + 10
C1_Witness ==
    /\ op = "DetectBreakouts"
    /\ pc = "done"
    /\ n = Length + AnalysisWindow - 1
    /\ signals = <<>>

\* C2: the Confidence of every signal of the result is a number from 0 to 1.
C2_ConfidenceWithinUnit ==
    \A k \in 1..Len(signals) :
        /\ IsNum(signals[k].Confidence)
        /\ signals[k].Confidence.v >= 0
        /\ signals[k].Confidence.v <= ConfScale

\* a breakout of a channel of zero deviation whose bonuses were cut off at 1
C2_Witness ==
    /\ Judged
    /\ channel.sse = 0
    /\ \E k \in 1..Len(signals) :
          /\ signals[k].Type = "UP_BREAKOUT"
          /\ signals[k].Confidence = Num(ConfScale)

\* C3: the one channel of a call is the fit of the Length closes at indices
\* [n - 10 - Length, n - 10), whatever the last 10 candles are, and the
\* ChannelLevel of every signal is its UpperLine or its LowerLine.
C3_OneChannelFromFitWindow ==
    (op = "DetectBreakouts" /\ channel # Nil) =>
        /\ channel = FitChannel(SubSeq(Closes(klines), n - AnalysisWindow - Length + 1,
                                       n - AnalysisWindow))
        /\ \A k \in 1..Len(signals) :
              /\ signals[k].ChannelLevel \in {channel.UpperLine, channel.LowerLine}
              /\ signals[k].Index >= n - AnalysisWindow

\* a call with more history than the fitting window has returned a signal at
\* the upper line of a sloped channel
C3_Witness ==
    /\ Judged
    /\ pc = "done"
    /\ n > Length + AnalysisWindow
    /\ channel.Slope.a # 0
    /\ \E k \in 1..Len(signals) : signals[k].ChannelLevel = channel.UpperLine

\* C4: checkBreakout yields UP_BREAKOUT exactly for a bullish candle whose
\* close is above UpperLine + 0.1 * Deviation, DOWN_BREAKOUT exactly for a
\* bearish candle whose close is below LowerLine - 0.1 * Deviation, and
\* nothing otherwise; a close equal to the band plus the margin is none.
C4_BreakoutRule ==
    Judged =>
        LET kline == At(klines, i - 1)
            up    == kline.Close > kline.Open /\ AboveUpperMargin(kline.Close)
            down  == kline.Close < kline.Open /\ BelowLowerMargin(kline.Close)
        IN  /\ up   <=> (breakout # Nil /\ breakout.Type = "UP_BREAKOUT")
            /\ down <=> (breakout # Nil /\ breakout.Type = "DOWN_BREAKOUT")
            /\ (~up /\ ~down) <=> breakout = Nil

\* a bullish candle closing exactly at UpperLine + 0.1 * Deviation: no breakout
C4_Witness ==
    /\ Judged
    /\ IsGreen(At(klines, i - 1))
    /\ OffMiddle(At(klines, i - 1).Close, 10 * DevLength + 1, 10) = 0
    /\ breakout = Nil


\* the candle at index j satisfies checkBreakout's rule for the side of level
FullBreakoutAt(j, level) ==
    LET kline == At(klines, j)
    IN  IF level = channel.UpperLine
        THEN kline.Close > kline.Open /\ AboveUpperMargin(kline.Close)
        ELSE kline.Close < kline.Open /\ BelowLowerMargin(kline.Close)

\* the close of the candle at index j is beyond the band of level by more
\* than the margin, whatever the candle's colour
CloseBeyondAt(j, level) ==
    IF level = channel.UpperLine THEN AboveUpperMargin(At(klines, j).Close)
    ELSE BelowLowerMargin(At(klines, j).Close)

\* C5, as the specification states it: whenever checkRetest returns a
\* signal, one of the 5 candles before satisfies the whole breakout rule of
\* the matching direction, colour included.
C5_RetestFollowsBreakoutCandle ==
    (Judged /\ retest # Nil) =>
        \E j \in Recent(i - 1) : FullBreakoutAt(j, retest.ChannelLevel)

\* C5, amended: whenever checkRetest returns a signal, one of the 5 candles
\* before has a close beyond the band of the signal's level by more than
\* 0.1 * Deviation; that candle may be of either colour.
C5_RetestFollowsBreakoutClose ==
    (Judged /\ retest # Nil) =>
        \E j \in Recent(i - 1) : CloseBeyondAt(j, retest.ChannelLevel)

\* a retest signal none of whose 5 preceding candles satisfies the whole rule
C5_Witness ==
    /\ Judged
    /\ retest # Nil
    /\ \A j \in Recent(i - 1) : ~FullBreakoutAt(j, retest.ChannelLevel)

\* C6: a retest signal is returned for the candle at index i only if one of
\* the candles i-5..i-1 closes beyond a band by more than the margin; with the
\* last such close 6 or more candles back, nothing is returned.
C6_RetestOnlyWithinLookback ==
    Judged =>
        \/ \E j \in Recent(i - 1) :
              AboveUpperMargin(At(klines, j).Close) \/ BelowLowerMargin(At(klines, j).Close)
        \/ /\ retest = Nil
           /\ Reported("RETEST_SUCCESS", i - 1) \cup Reported("RETEST_FAILED", i - 1) = {}

\* the candle 6 back closed above the upper band plus margin, the 5 since did
\* not close beyond a band, and the candle judged closes below the upper line
\* minus the tolerance: it is not a failed retest
C6_Witness ==
    /\ Judged
    /\ i - 1 - (RetestLookback + 1) >= n - AnalysisWindow
    /\ AboveUpperMargin(At(klines, i - 1 - (RetestLookback + 1)).Close)
    /\ \A j \in Recent(i - 1) :
          ~AboveUpperMargin(At(klines, j).Close) /\ ~BelowLowerMargin(At(klines, j).Close)
    /\ OffMiddle(At(klines, i - 1).Close, 100 * DevLength - 15, 100) < 0
    /\ retest = Nil

\* C7, as the specification states it: every RETEST_SUCCESS of the result is
\* about a candle whose bounce ratio (close - low)/(high - low), or rejection
\* ratio (high - close)/(high - low), is at least 0.6; a candle with
\* high = low has no such ratio.
C7_SuccessHasBounce ==
    \A k \in 1..Len(signals) :
        signals[k].Type = "RETEST_SUCCESS" =>
            LET kline == At(klines, signals[k].Index)
                part  == IF signals[k].ChannelLevel = channel.UpperLine
                         THEN kline.Close - kline.Low ELSE kline.High - kline.Close
            IN  /\ kline.High > kline.Low
                /\ 10 * part >= 6 * (kline.High - kline.Low)

\* C8, as the specification states it: an upper-level RETEST_SUCCESS has its
\* low no further than 0.15 * Deviation from UpperLine, on either side, and
\* its close above UpperLine; a lower-level one has its high no further than
\* that from LowerLine and its close below LowerLine.
C8_SuccessTouchesWithinTolerance ==
    \A k \in 1..Len(signals) :
        signals[k].Type = "RETEST_SUCCESS" =>
            LET kline == At(klines, signals[k].Index)
            IN  IF signals[k].ChannelLevel = channel.UpperLine
                THEN /\ OffMiddle(kline.Low, 100 * DevLength + 15, 100) <= 0
                     /\ OffMiddle(kline.Low, 100 * DevLength - 15, 100) >= 0
                     /\ OffMiddle(kline.Close, DevLength, 1) > 0
                ELSE /\ OffMiddle(kline.High, -(100 * DevLength + 15), 100) >= 0
                     /\ OffMiddle(kline.High, -(100 * DevLength - 15), 100) <= 0
                     /\ OffMiddle(kline.Close, -DevLength, 1) < 0

\* C8, amended: an upper-level RETEST_SUCCESS has its low at most
\* UpperLine + 0.15 * Deviation, however far below, and its close above
\* UpperLine; a lower-level one has its high at least
\* LowerLine - 0.15 * Deviation and its close below LowerLine.
C8_SuccessReachesLevel ==
    \A k \in 1..Len(signals) :
        signals[k].Type = "RETEST_SUCCESS" =>
            LET kline == At(klines, signals[k].Index)
            IN  IF signals[k].ChannelLevel = channel.UpperLine
                THEN /\ OffMiddle(kline.Low, 100 * DevLength + 15, 100) <= 0
                     /\ OffMiddle(kline.Close, DevLength, 1) > 0
                ELSE /\ OffMiddle(kline.High, -(100 * DevLength + 15), 100) >= 0
                     /\ OffMiddle(kline.Close, -DevLength, 1) < 0

\* an upper-level RETEST_SUCCESS of the result whose low is further below
\* UpperLine than the tolerance
C8_Witness ==
    \E k \in 1..Len(signals) :
        /\ signals[k].Type = "RETEST_SUCCESS"
        /\ signals[k].ChannelLevel = channel.UpperLine
        /\ OffMiddle(At(klines, signals[k].Index).Low, 100 * DevLength - 15, 100) < 0

\* C9: when findRecentBreakout locates an UP breakout and the candle closes
\* below UpperLine - 0.15 * Deviation, or locates a DOWN breakout and the
\* candle closes above LowerLine + 0.15 * Deviation, the result holds a
\* RETEST_FAILED for the candle with confidence 0.80 and strength 0,
\* whatever the RSI.
C9_FailedRetestReported ==
    Judged =>
        LET kline == At(klines, i - 1)
            info  == findRecentBreakout(klines, i - 1, channel, RetestLookback)
            up    == info.BreakoutType = "UP"
                     /\ OffMiddle(kline.Close, 100 * DevLength - 15, 100) < 0
            down  == info.BreakoutType = "DOWN"
                     /\ OffMiddle(kline.Close, -(100 * DevLength - 15), 100) > 0
        IN  (info # Nil /\ (up \/ down)) =>
                /\ signals # <<>>
                /\ LET last == signals[Len(signals)]
                   IN  /\ last.Type = "RETEST_FAILED"
                       /\ last.Index = i - 1
                       /\ last.ChannelLevel = info.Level
                       /\ last.Confidence = Num((80 * ConfScale) \div 100)
                       /\ last.Strength = 0
                       /\ last.RSI = currentRSI

\* a RETEST_FAILED of the result at the lower line whose RSI is outside the
\* band 20..70 that a downward signal is held to
C9_Witness ==
    \E k \in 1..Len(signals) :
        /\ signals[k].Type = "RETEST_FAILED"
        /\ signals[k].ChannelLevel = channel.LowerLine
        /\ ~RatBetween(signals[k].RSI, 20, 70)

\* C10: every UP_BREAKOUT and upper-level RETEST_SUCCESS of the result has an
\* RSI from 30 to 80, every DOWN_BREAKOUT and lower-level RETEST_SUCCESS one
\* from 20 to 70; a breakout checkBreakout returns with an RSI outside its
\* band is not in the result.
C10_RSIBands ==
    /\ \A k \in 1..Len(signals) :
          LET upper == signals[k].ChannelLevel = channel.UpperLine
          IN  /\ (signals[k].Type = "UP_BREAKOUT"
                    \/ (signals[k].Type = "RETEST_SUCCESS" /\ upper))
                  => RatBetween(signals[k].RSI, 30, 80)
              /\ (signals[k].Type = "DOWN_BREAKOUT"
                    \/ (signals[k].Type = "RETEST_SUCCESS" /\ ~upper))
                  => RatBetween(signals[k].RSI, 20, 70)
    /\ (Judged /\ breakout # Nil) =>
          LET inBand == IF breakout.Type = "UP_BREAKOUT"
                        THEN RatBetween(currentRSI, 30, 80)
                        ELSE RatBetween(currentRSI, 20, 70)
          IN  /\ breakout.RSI = currentRSI
              /\ inBand <=> Reported(breakout.Type, i - 1) # {}

\* checkBreakout returned an UP_BREAKOUT at an RSI above 80: not in the result
C10_Witness ==
    /\ Judged
    /\ breakout # Nil
    /\ breakout.Type = "UP_BREAKOUT"
    /\ ~RatBetween(currentRSI, 30, 80)
    /\ Reported("UP_BREAKOUT", i - 1) = {}


\* DetectBreakouts has returned for a strictly rising series long enough for
\* every analysed candle to have the RSIPeriod + 1 closes of an RSI (as the
\* 110 candles of scenario A have), whose last candle closes 5 deviations or
\* more above the upper line, on a volume more than 1.1 times the previous
\* one, its body 9/10 of its range
ScenarioA ==
    /\ op = "DetectBreakouts"
    /\ pc = "done"
    /\ channel # Nil
    /\ Len(klines) = n
    /\ n >= RSIPeriod + 1 + AnalysisWindow
    /\ \A j \in 1..(n - 1) : klines[j + 1].Close > klines[j].Close
    /\ LET kline == klines[n]
       IN  /\ 10 * kline.Volume > 11 * klines[n - 1].Volume
           /\ kline.High > kline.Low
           /\ 10 * (kline.Close - kline.Open) = 9 * (kline.High - kline.Low)
           /\ OffMiddle(kline.Close, DevLength + 5, 1) >= 0

\* C11, as the specification states it: for scenario A the result has
\* exactly one UP_BREAKOUT, about the last candle, with confidence 1.0 and
\* the RSI computed at that candle.
C11_ScenarioAOneBreakout ==
    ScenarioA =>
        \E k \in 1..Len(signals) :
            /\ Reported("UP_BREAKOUT", n - 1) = {k}
            /\ \A m \in 1..Len(signals) : signals[m].Type = "UP_BREAKOUT" => m = k
            /\ signals[k].Confidence = Num(ConfScale)
            /\ signals[k].RSI = CalculateRSI(Closes(klines), RSIPeriod)

\* C11, amended: for scenario A checkBreakout classifies the last candle as
\* an UP_BREAKOUT, but the RSI of a series without a falling close is 100,
\* above the 80 an upward signal may have, so the result holds no UP_BREAKOUT
\* and no RETEST_SUCCESS; whatever it holds is a RETEST_FAILED.
C11_ScenarioAFiltered ==
    ScenarioA =>
        /\ breakout # Nil
        /\ breakout.Type = "UP_BREAKOUT"
        /\ breakout.Index = n - 1
        /\ breakout.RSI = Rat(100, 1)
        /\ \A k \in 1..Len(signals) : signals[k].Type = "RETEST_FAILED"

\* scenario A on a channel of non-zero deviation
C11_Witness ==
    /\ ScenarioA
    /\ channel.sse > 0
    /\ breakout # Nil
    /\ breakout.Type = "UP_BREAKOUT"


\* the largest t in lo..hi with t <= 100 * level, level a value of channel ch
RECURSIVE FloorFrom(_, _, _, _)
FloorFrom(lo, hi, level, ch) ==
    IF lo >= hi THEN lo
    ELSE LET mid == (lo + hi + 1) \div 2
         IN  IF Ge(VScale(level, 100, 1), VInt(mid), ch)
             THEN FloorFrom(mid, hi, level, ch)
             ELSE FloorFrom(lo, mid - 1, level, ch)

\* two levels, of two channels, are the same to the hundredth
SameLevel(level1, ch1, level2, ch2) ==
    FloorFrom(0, 10000, level1, ch1) = FloorFrom(0, 10000, level2, ch2)

\* DetectBreakouts has returned for the series of an UP_BREAKOUT plus one candle
Extended == op = "DetectBreakouts" /\ pc = "done" /\ earlier # Nil /\ channel # Nil

\* kline has its low within 0.15 * Deviation of the UpperLine of channel ch,
\* closes above that line, and closes in the top 40% of its range
DipsAndBounces(kline, ch) ==
    LET tolerance == VScale(ch.Deviation, 15, 100)
    IN  /\ Le(VInt(kline.Low), VAdd(ch.UpperLine, tolerance), ch)
        /\ Ge(VInt(kline.Low), VSub(ch.UpperLine, tolerance), ch)
        /\ Gt(VInt(kline.Close), ch.UpperLine, ch)
        /\ kline.High > kline.Low
        /\ 10 * (kline.Close - kline.Low) >= 6 * (kline.High - kline.Low)

\* the RETEST_SUCCESS signals of the result about the appended candle
RetestOfAppended ==
    {k \in Reported("RETEST_SUCCESS", n - 1) :
        /\ signals[k].Confidence.v >= (70 * ConfScale) \div 100
        /\ signals[k].Confidence.v <= ConfScale}

\* C12, as the specification states it: when the appended candle dips to the
\* upper band within tolerance and closes above it in the top 40% of its
\* range (here: against the channel of the call before and against the
\* channel of this call alike), the result has a RETEST_SUCCESS for it at the
\* level of the breakout of the call before, with confidence 0.70 or more.
C12_ScenarioBSameLevel ==
    (Extended /\ DipsAndBounces(klines[n], earlier.channel)
              /\ DipsAndBounces(klines[n], channel)) =>
        \E k \in RetestOfAppended :
            SameLevel(signals[k].ChannelLevel, channel,
                      earlier.signals[Len(earlier.signals)].ChannelLevel, earlier.channel)

\* C12, amended: the call on the extended series fits its own channel, on the
\* window one candle later.  When against that channel the appended candle
\* dips to the upper line within tolerance and closes above it in the top 40%
\* of its range, findRecentBreakout locates an UP breakout in the 5 candles
\* before, and the RSI at the candle is from 30 to 80, the result has a
\* RETEST_SUCCESS for it at that channel's UpperLine, with confidence from
\* 0.70 to 1.
C12_ScenarioBRetest ==
    (Extended /\ DipsAndBounces(klines[n], channel)) =>
        LET info == findRecentBreakout(klines, n - 1, channel, RetestLookback)
        IN  (info # Nil /\ info.BreakoutType = "UP" /\ RatBetween(currentRSI, 30, 80)) =>
                \E k \in RetestOfAppended : signals[k].ChannelLevel = channel.UpperLine

\* a RETEST_SUCCESS for the appended candle, which qualifies against both
\* channels, at a level that is not the level of the breakout before
C12_Witness ==
    /\ Extended
    /\ DipsAndBounces(klines[n], earlier.channel)
    /\ DipsAndBounces(klines[n], channel)
    /\ \E k \in RetestOfAppended :
          /\ signals[k].ChannelLevel = channel.UpperLine
          /\ ~SameLevel(signals[k].ChannelLevel, channel,
                        earlier.signals[Len(earlier.signals)].ChannelLevel, earlier.channel)


\* DetectBreakouts has returned for Length + 10 candles or more, all with
\* open = high = low = close = the same constant
FlatInput ==
    /\ op = "DetectBreakouts"
    /\ pc = "done"
    /\ n >= Length + AnalysisWindow
    /\ Len(klines) = n
    /\ \A j \in 1..n :
          /\ klines[j].Close = klines[1].Close
          /\ klines[j].Open = klines[j].Close
          /\ klines[j].High = klines[j].Close
          /\ klines[j].Low = klines[j].Close

\* C13: for a flat series of Length + 10 candles or more the result is empty;
\* and against a channel of zero deviation a candle whose close equals the
\* level is never a breakout, bullish or bearish as it may be.
C13_FlatSeriesNoSignal ==
    /\ FlatInput => signals = <<>>
    /\ (Judged /\ channel.sse = 0 /\ OffMiddle(At(klines, i - 1).Close, 0, 1) = 0) =>
          /\ breakout = Nil
          /\ Reported("UP_BREAKOUT", i - 1) \cup Reported("DOWN_BREAKOUT", i - 1) = {}

\* the result for a flat series with more history than the fitting window
C13_Witness ==
    /\ FlatInput
    /\ n > Length + AnalysisWindow
    /\ channel # Nil
    /\ channel.sse = 0
    /\ signals = <<>>


\* the channel ch has Deviation >= 0, LowerLine <= MiddleLine <= UpperLine and
\* both bands DevLength * Deviation from the middle
Ordered(ch) ==
    /\ ch # NaN
    /\ VSign(ch.Deviation, ch.sse, ch.n) >= 0
    /\ Le(ch.LowerLine, ch.MiddleLine, ch)
    /\ Le(ch.MiddleLine, ch.UpperLine, ch)
    /\ Cmp(VSub(ch.UpperLine, ch.MiddleLine), VScale(ch.Deviation, DevLength, 1), ch) = 0
    /\ Cmp(VSub(ch.MiddleLine, ch.LowerLine), VScale(ch.Deviation, DevLength, 1), ch) = 0

\* C14, as the specification states it: every channel that
\* CalculateLinearRegressionChannel returns has Deviation >= 0,
\* LowerLine <= MiddleLine <= UpperLine, and
\* UpperLine - MiddleLine = MiddleLine - LowerLine = DevLength * Deviation.
C14_ChannelOrdered == channel # Nil => Ordered(channel)


\* the prices the channel of the state was fitted on
Fitted ==
    IF op = "DetectBreakouts"
    THEN SubSeq(Closes(klines), n - AnalysisWindow - length + 1, n - AnalysisWindow)
    ELSE SubSeq(prices, Len(prices) - length + 1, Len(prices))

\* the prices of data step by b from one to the next
OnLine(data, b) == \A j \in 1..(Len(data) - 1) : data[j + 1] - data[j] = b

\* a price, or a difference of prices, of the call as a value of its channel
PriceValue(p) == IF rounding THEN VFloat(p) ELSE VInt(p)

\* C15, as the specification states it: when the N >= 2 fitted prices lie on
\* a line of step b, the channel has Slope = b, Deviation = 0 and
\* UpperLine = LowerLine = MiddleLine = the last price of the window, the
\* line's value there; TrendUp is set only for b > 0 and TrendDown only for
\* b < 0, so neither for identical prices.
C15_ExactLineChannel ==
    (op \in {"DetectBreakouts", "CalculateLinearRegressionChannel"}
        /\ channel # Nil /\ length >= 2) =>
        LET data == Fitted
            b    == data[2] - data[1]
            last == PriceValue(data[Len(data)])
        IN  OnLine(data, b) =>
                /\ channel # NaN
                /\ Cmp(channel.Slope, PriceValue(b), channel) = 0
                /\ VSign(channel.Deviation, channel.sse, channel.n) = 0
                /\ Cmp(channel.MiddleLine, last, channel) = 0
                /\ Cmp(channel.UpperLine, last, channel) = 0
                /\ Cmp(channel.LowerLine, last, channel) = 0
                /\ channel.TrendUp <=> b > 0
                /\ channel.TrendDown <=> b < 0

\* the prices CalculateRSI looks at, the last period + 1
Trailing == SubSeq(prices, Len(prices) - period, Len(prices))

\* a direct call of CalculateRSI has returned
RSIReturned == op = "CalculateRSI" /\ pc = "done"

\* C16: CalculateRSI returns a number from 0 to 100 for every list of
\* non-negative prices and every period >= 1; so is every RSI that
\* DetectBreakouts computes.
C16_RSIWithinRange ==
    ((RSIReturned /\ period >= 1) \/ op = "DetectBreakouts") =>
        /\ currentRSI # NaN
        /\ currentRSI.den > 0
        /\ currentRSI.num >= 0
        /\ currentRSI.num <= 100 * currentRSI.den

\* a call on prices that rose and fell returned an RSI strictly inside the range
C16_Witness ==
    /\ RSIReturned
    /\ period >= 2
    /\ Len(prices) >= period + 1
    /\ \E j \in 1..period : Trailing[j + 1] > Trailing[j]
    /\ \E j \in 1..period : Trailing[j + 1] < Trailing[j]
    /\ currentRSI.num > 0
    /\ currentRSI.num < 100 * currentRSI.den

\* C17: when no price of the trailing period is below the price before it (the
\* average loss is zero), CalculateRSI returns exactly 100, whether or not a
\* price rose; the result is a number, never the 0/0 or x/0 of a division by
\* the zero loss.
C17_NoLossIsHundred ==
    (RSIReturned /\ period >= 1 /\ Len(prices) >= period + 1
        /\ \A j \in 1..period : Trailing[j + 1] >= Trailing[j])
      => currentRSI = Rat(100, 1)

\* a call on prices of which none fell and one rose returned 100
C17_Witness ==
    /\ RSIReturned
    /\ period >= 2
    /\ Len(prices) >= period + 1
    /\ \A j \in 1..period : Trailing[j + 1] >= Trailing[j]
    /\ \E j \in 1..period : Trailing[j + 1] > Trailing[j]
    /\ \E j \in 1..period : Trailing[j + 1] = Trailing[j]
    /\ currentRSI = Rat(100, 1)

\* C18: with fewer than period + 1 prices CalculateRSI returns 50.
C18_ShortHistoryIsNeutral ==
    (RSIReturned /\ Len(prices) < period + 1) => currentRSI = Rat(50, 1)

\* a call with exactly period prices, one short, returned 50
C18_Witness ==
    /\ RSIReturned
    /\ period >= 2
    /\ Len(prices) = period
    /\ currentRSI = Rat(50, 1)


\* the close of kline is beyond the upper band by more than the margin of
\* checkBreakout, and beyond the lower band
ClosesAboveUpper(kline) ==
    Gt(VInt(kline.Close), VAdd(channel.UpperLine, VScale(channel.Deviation, 1, 10)), channel)

ClosesBelowLower(kline) ==
    Lt(VInt(kline.Close), VSub(channel.LowerLine, VScale(channel.Deviation, 1, 10)), channel)

\* C19: no candle has more than one breakout signal in the result; what
\* checkBreakout returns for a candle is one signal, UP_BREAKOUT of a close
\* above the upper band or DOWN_BREAKOUT of a close below the lower band; and
\* no close is beyond both bands, so the two tests never hold together.
C19_OneBreakoutPerCandle ==
    /\ \A j \in 0..(Len(klines) - 1) :
          Cardinality(Reported("UP_BREAKOUT", j) \cup Reported("DOWN_BREAKOUT", j)) <= 1
    /\ Judged =>
          LET kline == At(klines, i - 1)
          IN  /\ ~(ClosesAboveUpper(kline) /\ ClosesBelowLower(kline))
              /\ breakout # Nil =>
                    \/ breakout.Type = "UP_BREAKOUT" /\ IsGreen(kline) /\ ~IsRed(kline)
                          /\ ~ClosesBelowLower(kline)
                    \/ breakout.Type = "DOWN_BREAKOUT" /\ IsRed(kline) /\ ~IsGreen(kline)
                          /\ ~ClosesAboveUpper(kline)

\* a result with an UP_BREAKOUT for one candle and a DOWN_BREAKOUT for another
C19_Witness ==
    /\ op = "DetectBreakouts"
    /\ pc = "done"
    /\ \E j \in 1..Len(signals) : signals[j].Type = "UP_BREAKOUT"
    /\ \E j \in 1..Len(signals) : signals[j].Type = "DOWN_BREAKOUT"


\* the candle at index m closed beyond a band by more than the margin
Beyond(m) ==
    AboveUpperMargin(At(klines, m).Close) \/ BelowLowerMargin(At(klines, m).Close)

\* a candle of Recent(index) did
Located(index) == \E m \in Recent(index) : Beyond(m)

\* the latest of them closed above the upper band
LocatedUp(index) ==
    \E m \in Recent(index) :
        /\ AboveUpperMargin(At(klines, m).Close)
        /\ \A k \in (m + 1)..(index - 1) : ~Beyond(k)

\* the success and the failure condition of a retest of the upper and of
\* the lower line, tolerance being 0.15 * Deviation
SuccessCondition(kline, up) ==
    IF up THEN OffMiddle(kline.Low, 100 * DevLength + 15, 100) <= 0
               /\ OffMiddle(kline.Close, DevLength, 1) > 0
    ELSE OffMiddle(kline.High, -(100 * DevLength + 15), 100) >= 0
         /\ OffMiddle(kline.Close, -DevLength, 1) < 0

FailureCondition(kline, up) ==
    IF up THEN OffMiddle(kline.Close, 100 * DevLength - 15, 100) < 0
    ELSE OffMiddle(kline.Close, -(100 * DevLength - 15), 100) > 0

\* C20: no candle has more than one retest signal in the result; what
\* checkRetest returns for a candle is nothing or one signal, a RETEST_SUCCESS
\* under the success condition or a RETEST_FAILED under the failure condition,
\* which exclude each other; and for a candle with a breakout located before
\* it that meets neither condition, checkRetest returns nothing and the result
\* holds no retest signal.
C20_OneRetestPerCandle ==
    /\ \A j \in 0..(Len(klines) - 1) :
          Cardinality(Reported("RETEST_SUCCESS", j) \cup Reported("RETEST_FAILED", j)) <= 1
    /\ Judged =>
          LET kline == At(klines, i - 1)
              up    == LocatedUp(i - 1)
          IN  /\ ~(SuccessCondition(kline, up) /\ FailureCondition(kline, up))
              /\ retest # Nil =>
                    /\ Located(i - 1)
                    /\ \/ retest.Type = "RETEST_SUCCESS" /\ SuccessCondition(kline, up)
                       \/ retest.Type = "RETEST_FAILED" /\ FailureCondition(kline, up)
              /\ (Located(i - 1) /\ ~SuccessCondition(kline, up)
                     /\ ~FailureCondition(kline, up)) =>
                    /\ retest = Nil
                    /\ Reported("RETEST_SUCCESS", i - 1) = {}
                    /\ Reported("RETEST_FAILED", i - 1) = {}

\* a candle that closes at the upper line, after a close above it: a breakout
\* is located, the candle meets neither condition, and no retest is returned
C20_Witness ==
    /\ Judged
    /\ LocatedUp(i - 1)
    /\ ~SuccessCondition(At(klines, i - 1), TRUE)
    /\ ~FailureCondition(At(klines, i - 1), TRUE)
    /\ OffMiddle(At(klines, i - 1).Close, DevLength, 1) = 0
    /\ retest = Nil


\* the signal is a breakout, a retest
IsBreakout(signal) == signal.Type \in {"UP_BREAKOUT", "DOWN_BREAKOUT"}

IsRetest(signal) == signal.Type \in {"RETEST_SUCCESS", "RETEST_FAILED"}

\* C21: the signals of the result are in ascending order of their candles, and
\* of two signals of one candle the first is the breakout and the second the
\* retest.
C21_SignalsInCandleOrder ==
    \A k, l \in 1..Len(signals) :
        k < l =>
            /\ signals[k].Index <= signals[l].Index
            /\ signals[k].Index = signals[l].Index =>
                   IsBreakout(signals[k]) /\ IsRetest(signals[l])

\* a result with a breakout and a retest of one candle after a signal of an
\* earlier candle
C21_Witness ==
    /\ op = "DetectBreakouts"
    /\ pc = "done"
    /\ \E k, l \in 1..Len(signals) :
          /\ k < l
          /\ signals[k].Index = signals[l].Index
          /\ \E j \in 1..Len(signals) : signals[j].Index < signals[k].Index


\* C22: Divide(a, b) returns an error, with the result 0, exactly when b = 0,
\* and otherwise a/b with no error.
C22_DivideErrorOnlyOnZero ==
    (op = "Divide" /\ pc = "done") =>
        LET a == operands[1]
            b == operands[2]
        IN  /\ quotient.err <=> b = 0
            /\ b = 0 => quotient.result = Rat(0, 1)
            /\ b # 0 => /\ quotient.result # NaN
                        /\ quotient.result.den # 0
                        /\ quotient.result.num * b = a * quotient.result.den

\* a non-zero number was divided by zero
C22_Witness ==
    /\ op = "Divide"
    /\ pc = "done"
    /\ operands[1] # 0
    /\ operands[2] = 0
    /\ quotient.err


\* distance/Deviation >= t/RatioScale for the breakout of the candle kline:
\* distance is Close - UpperLine for an UP_BREAKOUT and LowerLine - Close for
\* a DOWN_BREAKOUT
Reaches(kline, up, t) ==
    IF up THEN OffMiddle(kline.Close, 100 * DevLength + t, 100) >= 0
    ELSE OffMiddle(kline.Close, -(100 * DevLength + t), 100) <= 0

\* the largest t of lo..hi that distance/Deviation reaches, lo being reached
RECURSIVE LargestReached(_, _, _, _)
LargestReached(kline, up, lo, hi) ==
    IF lo >= hi THEN lo
    ELSE LET mid == (lo + hi + 1) \div 2
         IN  IF Reaches(kline, up, mid) THEN LargestReached(kline, up, mid, hi)
             ELSE LargestReached(kline, up, lo, mid - 1)

\* min(distance/Deviation, 1) in units of 1/RatioScale, truncated to them
DistancePart(kline, up) == LargestReached(kline, up, 0, RatioScale)

\* the confidence of the specification for a breakout of strength strength of
\* the candle at index, in units of 1/ConfScale
ExpectedConfidence(index, strength, up) ==
    LET kline   == At(klines, index)
        unit    == ConfScale \div RatioScale
        average == (Min((strength * ConfScale) \div 10, ConfScale)
                     + DistancePart(kline, up) * unit) \div 2
        volume  == IF kline.Volume * 10 > At(klines, index - 1).Volume * 11
                   THEN Min((average * 110) \div 100, ConfScale) ELSE average
    IN  IF kline.High > kline.Low
           /\ Abs(kline.Close - kline.Open) * 10 > 7 * (kline.High - kline.Low)
        THEN Min((volume * 105) \div 100, ConfScale) ELSE volume

Held(j, level, support) ==
    LET kline     == At(klines, j)
        tolerance == VScale(level, 5, 1000)
    IN  IF support
        THEN Le(VInt(kline.Low), VAdd(level, tolerance), channel)
             /\ Gt(VInt(kline.Close), level, channel)
        ELSE Ge(VInt(kline.High), VSub(level, tolerance), channel)
             /\ Lt(VInt(kline.Close), level, channel)

\* the bounce ratio of kline off the upper line, the rejection ratio off the
\* lower line, is above 0.8
BounceAbove80(kline, up) ==
    /\ kline.High > kline.Low
    /\ (IF up THEN kline.Close - kline.Low ELSE kline.High - kline.Close) * 10
          > 8 * (kline.High - kline.Low)

StayedInside(j, up) ==
    IF up THEN OffMiddle(At(klines, j).High, DevLength, 1) <= 0
    ELSE OffMiddle(At(klines, j).Low, -DevLength, 1) >= 0

\* C25: the strength of a breakout of the candle at index i is the number of
\* the up to 10 candles before i, i not among them, that stayed on the side of
\* the level the breakout leaves; it is from 0 to 10.
C25_BreakoutStrengthCount ==
    (Judged /\ breakout # Nil) =>
        /\ breakout.Strength =
              Cardinality({j \in Max(i - 1 - StrengthLookback, 0)..(i - 2) :
                              StayedInside(j, breakout.Type = "UP_BREAKOUT")})
        /\ breakout.Strength \in 0..StrengthLookback

\* a breakout after candles of which some stayed inside and some did not
C25_Witness ==
    /\ Judged
    /\ breakout # Nil
    /\ breakout.Strength >= 2
    /\ \E j \in Max(i - 1 - StrengthLookback, 0)..(i - 2) :
          ~StayedInside(j, breakout.Type = "UP_BREAKOUT")


\* the deviation of the fitted channel is zero: all three lines are one level
ZeroDeviation == VSign(channel.Deviation, channel.sse, channel.n) = 0

\* C26: with a channel of zero deviation a bullish candle closing strictly
\* above the level is an UP_BREAKOUT and a bearish candle closing strictly
\* below it a DOWN_BREAKOUT; the confidence is a number from 0 to 1 (at least
\* 0.5, the distance over the zero deviation counting as 1).
C26_ZeroDeviationBreakout ==
    (Judged /\ ZeroDeviation) =>
        LET kline == At(klines, i - 1)
            above == OffMiddle(kline.Close, 0, 1) > 0
            below == OffMiddle(kline.Close, 0, 1) < 0
        IN  /\ (kline.Close > kline.Open /\ above) =>
                  breakout # Nil /\ breakout.Type = "UP_BREAKOUT"
            /\ (kline.Close < kline.Open /\ below) =>
                  breakout # Nil /\ breakout.Type = "DOWN_BREAKOUT"
            /\ breakout # Nil =>
                  /\ IsNum(breakout.Confidence)
                  /\ breakout.Confidence.v >= ConfScale \div 2
                  /\ breakout.Confidence.v <= ConfScale

\* a bearish candle below the level of a flat channel, a DOWN_BREAKOUT
C26_Witness ==
    /\ Judged
    /\ ZeroDeviation
    /\ breakout # Nil
    /\ breakout.Type = "DOWN_BREAKOUT"
    /\ breakout.Confidence.v < ConfScale


\* closes beyond the upper and beyond the lower band are both among the 5
\* candles before the candle at index
BothSidesBefore(index) ==
    /\ \E m \in Recent(index) : AboveUpperMargin(At(klines, m).Close)
    /\ \E m \in Recent(index) : BelowLowerMargin(At(klines, m).Close)

\* C27: the retest of a candle is judged against the latest qualifying close of
\* the 5 candles before it and against the level of that close only: a retest
\* returned is a success or a failure at that level, a candle that fails that
\* level is reported as failed, and a candle that meets neither condition at
\* that level has no retest, whatever it does at the other level.
C27_LatestBreakoutDecides ==
    (Judged /\ Located(i - 1)) =>
        LET kline == At(klines, i - 1)
            up    == LocatedUp(i - 1)
            level == IF up THEN channel.UpperLine ELSE channel.LowerLine
        IN  /\ retest # Nil =>
                  /\ retest.ChannelLevel = level
                  /\ SuccessCondition(kline, up) \/ FailureCondition(kline, up)
            /\ (FailureCondition(kline, up) /\ ~SuccessCondition(kline, up)) =>
                  retest # Nil /\ retest.Type = "RETEST_FAILED" /\ retest.ChannelLevel = level
            /\ (~SuccessCondition(kline, up) /\ ~FailureCondition(kline, up)) => retest = Nil

\* closes beyond both bands of a channel of non-zero deviation, the latest
\* beyond the lower one, and a retest at the lower line
C27_Witness ==
    /\ Judged
    /\ ~ZeroDeviation
    /\ BothSidesBefore(i - 1)
    /\ ~LocatedUp(i - 1)
    /\ retest # Nil
    /\ retest.ChannelLevel = channel.LowerLine


\* the index of the latest candle of Recent(index) that closed beyond a band
LocatedAt(index) == CHOOSE m \in Recent(index) : Beyond(m) /\ \A k \in (m + 1)..(index - 1) : ~Beyond(k)

\* C28, as the specification states it: the candle against whose close a
\* retest is classified lies in the analysis window, never in the fitting
\* window or before it.
C28_PriorBreakoutInAnalysisWindow ==
    (Judged /\ retest # Nil) => LocatedAt(i - 1) >= n - AnalysisWindow

\* the side of its level a signal's price ended on: "UP" above, "DOWN" below
PriceSide(signal) ==
    IF Gt(VInt(signal.Price), signal.ChannelLevel, channel) THEN "UP"
    ELSE IF Lt(VInt(signal.Price), signal.ChannelLevel, channel) THEN "DOWN"
    ELSE "NEUTRAL"

\* the price direction of a signal: that of a breakout is its own, that of a
\* retest the side of the level the price ended on
PriceDirection(signal) ==
    IF signal.Type = "UP_BREAKOUT" THEN "UP"
    ELSE IF signal.Type = "DOWN_BREAKOUT" THEN "DOWN"
    ELSE PriceSide(signal)

\* hasSuccessfulRetest has returned
Retested == outcome # Nil /\ outcome.caller = "hasSuccessfulRetest"

\* the package-level DetectBreakouts has returned
Summarised == outcome # Nil /\ outcome.caller = "DetectBreakouts"

\* C29, as the specification states it: hasSuccessfulRetest returns true for
\* every series, here of the 20 candles it asks for, for which the analyzer
\* returns a RETEST_SUCCESS signal with a confidence above 60%.
C29_SuccessfulRetestFound ==
    (/\ Retested
     /\ n >= MinCandles
     /\ \E k \in 1..Len(signals) :
           /\ signals[k].Type = "RETEST_SUCCESS"
           /\ signals[k].Confidence.v * 100 > 60 * ConfScale)
    => outcome.value = TRUE

\* C30, as the specification states it: the summary of the package-level
\* DetectBreakouts is the neutral one exactly when the analyzer returns no
\* signal; otherwise it has the confidence of the last signal, and it says UP
\* only when that signal's price direction is up and DOWN only when it is down.
C30_SummaryFollowsLastSignal ==
    Summarised =>
        /\ (outcome.data = Neutral) <=> (signals = <<>>)
        /\ signals # <<>> =>
              LET last == signals[Len(signals)]
              IN  /\ outcome.data.Confidence = last.Confidence
                  /\ outcome.data.Direction = "UP" => PriceDirection(last) = "UP"
                  /\ outcome.data.Direction = "DOWN" => PriceDirection(last) = "DOWN"

============================================================================
